---- MODULE Spec2Model ----
(***************************************************************************)
(* A model of f-pacs: Shamir shares over the scalar field, Schnorr         *)
(* signatures, the sealed record chain (Rn / RnChain) and the file         *)
(* adaptor (FnAdaptor).                                                    *)
(*                                                                         *)
(* The external libraries are scaled down, keeping their structure:        *)
(*   - a byte is a 2-bit value (0..3);                                     *)
(*   - the Ristretto group is the cyclic group of prime order Q, a point   *)
(*     being written as its multiple of the base point G (G = 1);          *)
(*   - a hash is a positional digest of its input bytes;                   *)
(*   - AES is a keyed permutation of 2-byte blocks, used in CBC mode with  *)
(*     PKCS7 padding and a leading IV block, as aesstream does.            *)
(***************************************************************************)
EXTENDS Integers, Sequences, FiniteSets, TLC

\* one variable for each part of the program that is exercised: signatures
\* (sg), shares (sh), a sealed record (sl), a record chain (rc), a file (fa)
VARIABLES sg, sh, sl, rc, fa, mem, rs

vars == <<sg, sh, sl, rc, fa, mem, rs>>

-----------------------------------------------------------------------------
(* Sizes of the scaled-down encodings. *)

\* number of values of a byte (u8)
ByteMod == 4
\* order of the scalar field / of the group (a prime)
Q == 41
\* bytes of a canonical scalar (Scalar::as_bytes)
ScalarLen == 3
\* bytes of a compressed point (CompressedRistretto::as_bytes)
CompressLen == 3
\* bytes of a SHA-256 digest
DigestLen == 4
\* bytes of an AES-128 block and of an AES-128 key (k128, dn)
BlockLen == 2
\* bytes of a bincode length prefix (u64)
LenLen == 2
\* multiplier of the positional digests
HashBase == 5

Byte == 0..(ByteMod - 1)
Scalar == 0..(Q - 1)
None == <<"None">>
Some(x) == <<"Some", x>>
IsSome(o) == o[1] = "Some"
Unwrap(o) == o[2]

-----------------------------------------------------------------------------
(* Bounds of the explored inputs. *)

\* secret scalars are drawn from 1..MaxSecret
MaxSecret == 2
\* total number of bytes of a signed message
MaxMsgBytes == 2
\* ephemeral scalars k are drawn from 1..MaxNonce
MaxNonce == 2
\* records of a chain
MaxChain == 3
\* random coefficients are drawn from 0..MaxCoef and Q - 1
MaxCoef == 1
\* degree t of the shared polynomial
MaxDegree == 2
\* number n of shares
MaxParties == 4

-----------------------------------------------------------------------------
(* Byte strings *)

RECURSIVE Concat(_)
\* slices.concat(): the parts one after the other, no framing
Concat(parts) ==
  IF parts = <<>> THEN <<>> ELSE Head(parts) \o Concat(Tail(parts))

RECURSIVE Pow(_, _)
Pow(b, e) == IF e = 0 THEN 1 ELSE b * Pow(b, e - 1)

\* little-endian fixed-width encoding of a number
ToBytes(x, n) == [i \in 1..n |-> (x \div Pow(ByteMod, i - 1)) % ByteMod]

RECURSIVE FromBytes(_)
FromBytes(bs) ==
  IF bs = <<>> THEN 0 ELSE Head(bs) + ByteMod * FromBytes(Tail(bs))

Take(s, n) == SubSeq(s, 1, IF n < Len(s) THEN n ELSE Len(s))
Drop(s, n) == SubSeq(s, n + 1, Len(s))

RECURSIVE SeqsUpTo(_, _)
\* all sequences over S of length at most n
SeqsUpTo(S, n) ==
  IF n = 0 THEN {<<>>}
  ELSE LET shorter == SeqsUpTo(S, n - 1)
       IN shorter \cup {<<x>> \o s : x \in S, s \in {t \in shorter : Len(t) = n - 1}}

-----------------------------------------------------------------------------
(* Scalar field and group (curve25519-dalek) *)

ScAdd(a, b) == (a + b) % Q
ScSub(a, b) == (a + Q - b) % Q
ScMul(a, b) == (a * b) % Q
ScNeg(a) == (Q - a) % Q

RECURSIVE ScPow(_, _)
ScPow(b, e) == IF e = 0 THEN 1 ELSE ScMul(b, ScPow(b, e - 1))

\* Scalar::invert: b^(Q-2); the inverse of zero is zero
ScInvert(a) == ScPow(a, Q - 2)

\* Scalar::as_bytes
ScalarBytes(x) == ToBytes(x, ScalarLen)

\* the base point, RISTRETTO_BASEPOINT_POINT
G == 1
\* RistrettoPoint::default(): the identity
PointIdentity == 0
\* scalar * point
PtMul(s, P) == (s * P) % Q
\* point + point
PtAdd(P, R) == (P + R) % Q
\* RistrettoPoint::compress().as_bytes()
Compress(P) == ToBytes(P, CompressLen)

RECURSIVE DigestFrom(_, _, _)
\* positional digest of the bytes of bs from index i on, modulo m
DigestFrom(bs, i, m) ==
  IF i > Len(bs) THEN 0
  ELSE (bs[i] + 1 + HashBase * DigestFrom(bs, i + 1, m)) % m

\* positional digest of a byte string, modulo m
Digest(bs, m) == DigestFrom(bs, 1, m)

\* Scalar::from_hash(Sha512 over the input)
ScalarFromHash(bs) == Digest(bs, Q)

\* Sha256 over the input, result().to_vec()
Sha256(bs) == ToBytes(Digest(bs, Pow(ByteMod, DigestLen)), DigestLen)

-----------------------------------------------------------------------------
(* Schnorr signatures: crypto/signatures.rs *)

RECURSIVE Base64Encode(_)
\* base64::encode: every byte becomes two characters of the alphabet {1, 2}
Base64Encode(bs) ==
  IF bs = <<>> THEN <<>>
  ELSE <<1 + (Head(bs) \div 2), 1 + (Head(bs) % 2)>> \o Base64Encode(Tail(bs))

RECURSIVE Base64DecodeLax(_)
Base64DecodeLax(cs) ==
  IF cs = <<>> THEN Some(<<>>)
  ELSE IF Len(cs) < 2 THEN None
  ELSE LET rest == Base64DecodeLax(Drop(cs, 2))
       IN IF IsSome(rest)
          THEN Some(<<2 * ((cs[1] + 1) % 2) + ((cs[2] + 1) % 2)>> \o Unwrap(rest))
          ELSE None

RECURSIVE Base64Decode(_)
\* base64::decode: None on an odd length or a character outside the alphabet
Base64Decode(cs) ==
  IF cs = <<>> THEN Some(<<>>)
  ELSE IF Len(cs) < 2 \/ cs[1] \notin {1, 2} \/ cs[2] \notin {1, 2} THEN None
  ELSE LET rest == Base64Decode(Drop(cs, 2))
       IN IF IsSome(rest)
          THEN Some(<<2 * (cs[1] - 1) + (cs[2] - 1)>> \o Unwrap(rest))
          ELSE None

SigSignBad(s, key, data) ==
  LET m == ScalarFromHash(ScalarBytes(s) \o Concat(data))
      M == Compress(PtMul(m, G))
      c == ScalarFromHash(Compress(key) \o M \o Concat(data))
      p == ScAdd(m, ScMul(c, s))
  IN [encoded |-> Base64Encode(ScalarBytes(c) \o ScalarBytes(p)), c |-> c, p |-> p]

\* Signature::sign(s, key, data)
SigSign(s, key, data) ==
  LET m == ScalarFromHash(ScalarBytes(s) \o Concat(data))
      M == Compress(PtMul(m, G))
      c == ScalarFromHash(Compress(key) \o M \o Concat(data))
      p == ScSub(m, ScMul(c, s))
  IN [encoded |-> Base64Encode(ScalarBytes(c) \o ScalarBytes(p)), c |-> c, p |-> p]

\* Signature::verify(&self, key, data)
SigVerify(sig, key, data) ==
  LET M == PtAdd(PtMul(sig.c, key), PtMul(sig.p, G))
      c == ScalarFromHash(Compress(key) \o Compress(M) \o Concat(data))
  IN c = sig.c

\* ExtSignature::sign(s, key, data)
ExtSign(s, key, data) == [sig |-> SigSign(s, key, data), key |-> key]

\* ExtSignature::verify(&self, data)
ExtVerify(ext, data) == SigVerify(ext.sig, ext.key, data)

\* KeyPair::new with the random scalar s
KeyPair(s) == [s |-> s, key |-> PtMul(s, G)]

-----------------------------------------------------------------------------
(* Results of fallible operations: Ok(value), Err(message), or a panic *)

Ok(v) == [kind |-> "Ok", val |-> v]
Err(msg) == [kind |-> "Err", msg |-> msg]
Panic == [kind |-> "Panic"]
IsOk(r) == r.kind = "Ok"

-----------------------------------------------------------------------------
(* AES-128 in CBC mode with PKCS7 padding, as streamed by aesstream *)

\* bitwise exclusive or of two 2-bit bytes
XorByte(a, b) == ((a + b) % 2) + 2 * (((a \div 2) + (b \div 2)) % 2)
XorBlock(x, y) == [i \in 1..BlockLen |-> XorByte(x[i], y[i])]

\* the block cipher: a permutation of the blocks for every key
BlockEncrypt(key, blk) ==
  <<XorByte(blk[2], key[1]), XorByte((blk[1] + blk[2]) % ByteMod, key[2])>>

BlockDecrypt(key, blk) ==
  LET b == XorByte(blk[1], key[1])
      t == XorByte(blk[2], key[2])
  IN <<(t + ByteMod - b) % ByteMod, b>>

\* PkcsPadding::pad_input: 1..BlockLen bytes, each the number of bytes added
PkcsPad(plain) ==
  LET n == BlockLen - (Len(plain) % BlockLen)
  IN plain \o [i \in 1..n |-> n]

RECURSIVE CbcEncrypt(_, _, _)
\* CbcEncryptor over whole blocks, prev the previous ciphertext block
CbcEncrypt(key, prev, padded) ==
  IF padded = <<>> THEN <<>>
  ELSE LET c == BlockEncrypt(key, XorBlock(Take(padded, BlockLen), prev))
       IN c \o CbcEncrypt(key, c, Drop(padded, BlockLen))

RECURSIVE CbcDecrypt(_, _, _)
CbcDecrypt(key, prev, body) ==
  IF body = <<>> THEN <<>>
  ELSE LET c == Take(body, BlockLen)
       IN XorBlock(BlockDecrypt(key, c), prev) \o CbcDecrypt(key, c, Drop(body, BlockLen))

\* AesWriter::new, write_all and the flush on drop: the IV block, then the
\* encrypted padded plaintext
AesWrite(key, iv, plain) == iv \o CbcEncrypt(key, iv, PkcsPad(plain))

\* PkcsPadding::strip_output on the decrypted blocks
PkcsStrip(padded) ==
  LET v == padded[Len(padded)]
      lastBlock == Drop(padded, Len(padded) - BlockLen)
      n == IF v < BlockLen THEN v ELSE BlockLen
  IN IF \E i \in 1..n : lastBlock[BlockLen + 1 - i] # v THEN Err("Padding")
     ELSE IF v > BlockLen THEN Panic
     ELSE Ok(Take(padded, Len(padded) - v))

\* AesReader::new and read_to_end over the whole input
AesRead(key, bytes) ==
  IF Len(bytes) < BlockLen THEN Err("UnexpectedEof")
  ELSE LET iv == Take(bytes, BlockLen)
           body == Drop(bytes, BlockLen)
       IN IF body = <<>> \/ Len(body) % BlockLen # 0 THEN Err("Padding")
          ELSE PkcsStrip(CbcDecrypt(key, iv, body))

-----------------------------------------------------------------------------
(* bincode *)

\* a u64 length prefix
LenPrefix(n) == ToBytes(n, LenLen)

\* Vec<u8>: the length, then the bytes
SerVec(bs) == LenPrefix(Len(bs)) \o bs

\* reads a Vec<u8> at the front of bs: None, or Some(<<vec, rest>>)
DeVec(bs) ==
  IF Len(bs) < LenLen THEN None
  ELSE LET n == FromBytes(Take(bs, LenLen))
           rest == Drop(bs, LenLen)
       IN IF Len(rest) < n THEN None
          ELSE Some(<<Take(rest, n), Drop(rest, n)>>)

-----------------------------------------------------------------------------
(* LambdaKey, RnData, RnEncData: structs.rs *)

\* the bytes LambdaKey::new gives to the hasher: chain(alpha), chain(id),
\* chain(set)
LambdaKeyInput(alpha, id, set) == alpha \o id \o set

\* LambdaKey::new(alpha, id, set)
LambdaKeyNew(alpha, id, set) == [key |-> Sha256(LambdaKeyInput(alpha, id, set))]

\* LambdaKey::k128
K128(lambda) == Take(lambda.key, BlockLen)

\* bincode::serialize(&RnData)
SerRnData(cd) ==
  (IF IsSome(cd.lambda_prev) THEN <<1>> \o SerVec(Unwrap(cd.lambda_prev).key)
   ELSE <<0>>)
  \o cd.file.dn \o SerVec(cd.file.hfile)

\* bincode::deserialize::<RnData>
DeRnData(bs) ==
  IF bs = <<>> \/ bs[1] \notin {0, 1} THEN Err("Decode")
  ELSE LET keyv == IF bs[1] = 1 THEN DeVec(Tail(bs)) ELSE Some(<<<<>>, Tail(bs)>>)
       IN IF ~IsSome(keyv) THEN Err("Decode")
          ELSE LET rest == Unwrap(keyv)[2]
                   hf == DeVec(Drop(rest, BlockLen))
               IN IF Len(rest) < BlockLen \/ ~IsSome(hf) THEN Err("Decode")
                  ELSE Ok([lambda_prev |->
                             IF bs[1] = 1 THEN Some([key |-> Unwrap(keyv)[1]])
                             ELSE None,
                           file |-> [dn |-> Take(rest, BlockLen),
                                     hfile |-> Unwrap(hf)[1]]])

\* RnEncData::new(ekey, id, set, cd), with the random scalar k and the random
\* IV of the AesWriter; returns <<lambda, RnEncData>>
RnEncDataNewBad(ekey, id, set, cd, k, iv) ==
  LET alpha == Compress(PtMul(k, G))
      lambda == LambdaKeyNew(alpha, id, set)
  IN <<lambda, [kn |-> PtMul(k, G),
                data |-> AesWrite(K128(lambda), iv, SerRnData(cd))]>>

RnEncDataNew(ekey, id, set, cd, k, iv) ==
  LET alpha == Compress(PtMul(k, ekey))
      lambda == LambdaKeyNew(alpha, id, set)
  IN <<lambda, [kn |-> PtMul(k, G),
                data |-> AesWrite(K128(lambda), iv, SerRnData(cd))]>>

\* RnEncData::data(&self, lambda)
RnEncDataData(enc, lambda) ==
  LET plain == AesRead(K128(lambda), enc.data)
  IN IF IsOk(plain) THEN DeRnData(plain.val) ELSE plain

\* RnEncData::to_vec
RnEncDataToVec(enc) == Compress(enc.kn) \o enc.data

-----------------------------------------------------------------------------
(* Rn: structs.rs *)

\* Rn::head(keyp, ekey, id, set, rd); returns <<lambda, Rn>>
RnHead(keyp, ekey, id, set, rd, k, iv) ==
  LET ld == RnEncDataNew(ekey, id, set, rd, k, iv)
      dhash == Sha256(id \o set \o RnEncDataToVec(ld[2]))
  IN <<ld[1], [id |-> Some(id), set |-> Some(set), hprev |-> None,
               data |-> ld[2], sig |-> ExtSign(keyp.s, keyp.key, <<dhash>>)]>>

\* Rn::tail(keyp, ekey, hprev, id, set, rd); returns <<lambda, Rn>>
RnTail(keyp, ekey, hprev, id, set, rd, k, iv) ==
  LET ld == RnEncDataNew(ekey, id, set, rd, k, iv)
      dhash == Sha256(hprev \o RnEncDataToVec(ld[2]))
  IN <<ld[1], [id |-> None, set |-> None, hprev |-> Some(hprev),
               data |-> ld[2], sig |-> ExtSign(keyp.s, keyp.key, <<dhash>>)]>>

\* Rn::hash: unwraps set (Head branch) or hprev (Tail branch)
RnHash(rn) ==
  IF IsSome(rn.id)
  THEN IF IsSome(rn.set)
       THEN Ok(Sha256(Unwrap(rn.id) \o Unwrap(rn.set) \o RnEncDataToVec(rn.data)))
       ELSE Panic
  ELSE IF IsSome(rn.hprev)
       THEN Ok(Sha256(Unwrap(rn.hprev) \o RnEncDataToVec(rn.data)))
       ELSE Panic

\* Rn::check
RnCheck(rn) ==
  LET dhash == RnHash(rn)
  IN IF ~IsOk(dhash) THEN dhash
     ELSE IF ~ExtVerify(rn.sig, <<dhash.val>>) THEN Err("Invalid record signature!")
     ELSE dhash

-----------------------------------------------------------------------------
(* RnChain: structs.rs *)

\* RnChain::new(head)
RnChainNew(head) ==
  LET lhash == RnCheck(head)
  IN IF ~IsOk(lhash) THEN lhash
     ELSE IF ~IsSome(head.id) THEN Err("Record is not a head type!")
     ELSE Ok([lhash |-> lhash.val, chain |-> <<head>>])

RnChainPushNoLink(self, tail) ==
  LET dhash == RnCheck(tail)
  IN IF ~IsOk(dhash) THEN dhash
     ELSE IF ~IsSome(tail.hprev) THEN Err("Record is not a tail type!")
     ELSE Ok([lhash |-> dhash.val, chain |-> Append(self.chain, tail)])

RnChainPushLinkFirst(self, tail) ==
  IF IsSome(tail.hprev) /\ self.lhash # Unwrap(tail.hprev)
  THEN Err("Incorrect hash chain!")
  ELSE LET dhash == RnCheck(tail)
       IN IF ~IsOk(dhash) THEN dhash
          ELSE IF ~IsSome(tail.hprev) THEN Err("Record is not a tail type!")
          ELSE Ok([lhash |-> dhash.val, chain |-> Append(self.chain, tail)])

\* RnChain::push(&mut self, tail): Ok(the chain after the push), or the
\* error, the chain being left as it was
RnChainPush(self, tail) ==
  LET dhash == RnCheck(tail)
  IN IF ~IsOk(dhash) THEN dhash
     ELSE IF ~IsSome(tail.hprev) THEN Err("Record is not a tail type!")
     ELSE IF self.lhash # Unwrap(tail.hprev) THEN Err("Incorrect hash chain!")
     ELSE Ok([lhash |-> dhash.val, chain |-> Append(self.chain, tail)])

\* RnChain::kn
RnChainKn(self) == self.chain[Len(self.chain)].data.kn

RECURSIVE RecoverWalk(_, _, _, _)
\* the loop of RnChain::recover over chain.iter().rev(): record i with the
\* current lambda, acc the files collected so far (tail first)
RecoverWalk(self, i, lambda, acc) ==
  IF i = 0 THEN Ok(acc)
  ELSE IF ~IsSome(lambda) THEN Panic
  ELSE LET data == RnEncDataData(self.chain[i].data, Unwrap(lambda))
       IN IF ~IsOk(data) THEN data
          ELSE RecoverWalk(self, i - 1, data.val.lambda_prev, Append(acc, data.val.file))

Reverse(s) == [i \in 1..Len(s) |-> s[Len(s) + 1 - i]]

RnChainRecoverNoReverse(self, alpha) ==
  RecoverWalk(self, Len(self.chain),
              Some(LambdaKeyNew(alpha, Unwrap(self.chain[1].id),
                                Unwrap(self.chain[1].set))), <<>>)

\* RnChain::recover(&self, alpha)
RnChainRecover(self, alpha) ==
  LET id == Unwrap(self.chain[1].id)
      set == Unwrap(self.chain[1].set)
      walk == RecoverWalk(self, Len(self.chain), Some(LambdaKeyNew(alpha, id, set)), <<>>)
  IN IF IsOk(walk) THEN Ok(Reverse(walk.val)) ELSE walk

-----------------------------------------------------------------------------
(* Polynomial, ShareVector, RistrettoShareVector: crypto/shares.rs *)

\* Polynomial::rnd(secret, degree), rnd the degree random coefficients
PolyRnd(secret, degree, rnd) == [a |-> <<secret>> \o rnd]

RECURSIVE Horner(_, _, _, _)
\* the fold of Polynomial::evaluate over the coefficients below index i
Horner(a, i, x, partial) ==
  IF i = 0 THEN partial
  ELSE Horner(a, i - 1, x, ScAdd(ScMul(partial, x), a[i]))

\* Polynomial::evaluate(&self, x)
PolyEvaluate(poly, x) == Horner(poly.a, Len(poly.a) - 1, x, poly.a[Len(poly.a)])

\* Polynomial::shares(&self, n)
PolyShares(poly, n) == [j \in 1..n |-> [i |-> j, yi |-> PolyEvaluate(poly, j % Q)]]

RECURSIVE LiLoop(_, _, _, _, _)
\* the loop of Polynomial::l_i from index j on
LiLoop(range, i, j, num, denum) ==
  IF j > Len(range) THEN ScMul(num, ScInvert(denum))
  ELSE IF j # i
       THEN LiLoop(range, i, j + 1, ScMul(num, range[j]),
                   ScMul(denum, ScSub(range[j], range[i])))
       ELSE LiLoop(range, i, j + 1, num, denum)

PolyLiBad(range, i) ==
  ScMul(LiLoop(range, i, 1, 1, 1), IF Len(range) % 2 = 0 THEN Q - 1 ELSE 1)

\* Polynomial::l_i(range, i)
PolyLi(range, i) == LiLoop(range, i, 1, 1, 1)

\* the x-coordinates of a share vector as scalars
ShareRange(v) == [j \in 1..Len(v) |-> v[j].i % Q]

RECURSIVE ScalarAcc(_, _, _, _)
ScalarAcc(v, range, i, acc) ==
  IF i > Len(v) THEN acc
  ELSE ScalarAcc(v, range, i + 1, ScAdd(acc, ScMul(PolyLi(range, i), v[i].yi)))

\* ShareVector::recover
ShareVectorRecover(v) == ScalarAcc(v, ShareRange(v), 1, 0)

\* &ShareVector * &RistrettoPoint
ShareVectorMulPoint(v, rhs) ==
  [j \in 1..Len(v) |-> [i |-> v[j].i, Yi |-> PtMul(v[j].yi, rhs)]]

RECURSIVE PointAcc(_, _, _, _)
PointAcc(v, range, i, acc) ==
  IF i > Len(v) THEN acc
  ELSE PointAcc(v, range, i + 1, PtAdd(acc, PtMul(PolyLi(range, i), v[i].Yi)))

RistrettoShareVectorRecoverBad(v) == PointAcc(v, ShareRange(v), 1, G)

\* RistrettoShareVector::recover
RistrettoShareVectorRecover(v) == PointAcc(v, ShareRange(v), 1, PointIdentity)

-----------------------------------------------------------------------------
(* Building, extending and recovering a chain: structs.rs, main.rs *)

Secrets == 1..MaxSecret
Nonces == 1..MaxNonce

\* the IV blocks the AesWriter may draw
IVs == {<<0, 0>>, <<3, 1>>}

\* the IV drawn for the records of a chain
ChainIV == <<3, 1>>

\* the source's key pair (skp) and a second key pair
SourceKey == KeyPair(Q - 1)
OtherKey == KeyPair(Q - 2)

\* the file references a record may carry
FileRefs == {[dn |-> <<1, 2>>, hfile |-> <<1>>], [dn |-> <<2, 1>>, hfile |-> <<>>]}

\* the subject and dataset of the chain ("subject-id", "dataset-id")
ChainId == <<0, 1>>
ChainSet == <<2>>

\* a scalar other than s
OtherSecret(s) == ScAdd(s, 1)

\* one bit of the first byte of a digest changed
FlipFirst(h) == [h EXCEPT ![1] = XorByte(h[1], 1)]

NoArg == [id |-> None, set |-> None, hprev |-> None]

\* the master secrets e and the random scalars k of RnEncData::new that the
\* chains are built with
ChainSecrets == {1, MaxSecret}
ChainNonces == {1, MaxNonce}

RcInit ==
  /\ sg = "idle" /\ sh = "idle" /\ sl = "idle" /\ fa = "idle"
  /\ mem = "idle" /\ rs = "idle"
  /\ \E e \in ChainSecrets :
    rc = [e |-> e, chain |-> None, honest |-> FALSE, lambda |-> None,
          files |-> <<>>, op |-> "init", res |-> Ok(<<>>), prev |-> None,
          arg |-> NoArg, argCheck |-> "none", alphaOk |-> FALSE,
          altered |-> FALSE]

\* the state after RnChain::new(r) or chain.push(r) returned res
AfterPut(op, r, res, honest, lambda, files) ==
  [e |-> rc.e,
   chain |-> IF IsOk(res) THEN Some(res.val) ELSE rc.chain,
   honest |-> IF IsOk(res) THEN honest ELSE rc.honest,
   lambda |-> IF IsOk(res) THEN lambda ELSE rc.lambda,
   files |-> IF IsOk(res) THEN files ELSE rc.files,
   op |-> op,
   res |-> IF IsOk(res) THEN Ok(<<>>) ELSE res,
   prev |-> rc.chain,
   arg |-> [id |-> r.id, set |-> r.set, hprev |-> r.hprev],
   argCheck |-> RnCheck(r),
   alphaOk |-> FALSE,
   altered |-> rc.altered]

\* rn_chain_speed, first record: Rn::head and RnChain::new
RcCreateHead ==
  /\ rc.chain = None
  /\ \E k \in ChainNonces, file \in FileRefs :
       \E lr \in {RnHead(SourceKey, PtMul(rc.e, G), ChainId, ChainSet,
                         [lambda_prev |-> None, file |-> file], k, ChainIV)} :
         \E res \in {RnChainNew(lr[2])} :
           rc' = AfterPut("new", lr[2], res, TRUE, Some(lr[1]), <<file>>)
  /\ UNCHANGED <<sg, sh, sl, fa, mem, rs>>

\* rn_chain_speed, later records: Rn::tail on the current lhash with the
\* lambda of the record before, and chain.push
RcCreateTail ==
  /\ rc.chain # None /\ rc.honest
  /\ Len(Unwrap(rc.chain).chain) < MaxChain
  /\ \E k \in ChainNonces, file \in FileRefs :
       \E lr \in {RnTail(SourceKey, PtMul(rc.e, G), Unwrap(rc.chain).lhash,
                         ChainId, ChainSet,
                         [lambda_prev |-> rc.lambda, file |-> file], k, ChainIV)} :
         \E res \in {RnChainPush(Unwrap(rc.chain), lr[2])} :
           rc' = AfterPut("push", lr[2], res, TRUE, Some(lr[1]), Append(rc.files, file))
  /\ UNCHANGED <<sg, sh, sl, fa, mem, rs>>

\* the digest a foreign record may name as its predecessor
LinkHashes ==
  IF rc.chain = None THEN {Sha256(<<>>)}
  ELSE {Unwrap(rc.chain).lhash, FlipFirst(Unwrap(rc.chain).lhash)}

\* a LambdaKey that belongs to no record of the chain
StrayLambda == LambdaKeyNew(Compress(PointIdentity), ChainId, ChainSet)

\* records made by Rn::head and Rn::tail, by the source or under another key;
\* RnData is public, so a head may carry a lambda_prev and a tail none
MadeRecords ==
  LET rd == [lambda_prev |-> None, file |-> CHOOSE f \in FileRefs : TRUE]
      ek == PtMul(rc.e, G)
  IN {RnHead(SourceKey, ek, ChainId, ChainSet, rd, 1, ChainIV)[2],
      RnHead(SourceKey, ek, ChainId, ChainSet,
             [rd EXCEPT !.lambda_prev = Some(StrayLambda)], 1, ChainIV)[2]}
     \cup {RnTail(SourceKey, ek, h, ChainId, ChainSet, rd, 1, ChainIV)[2] :
             h \in LinkHashes}
     \cup {RnTail(OtherKey, ek, h, ChainId, ChainSet, rd, 1, ChainIV)[2] :
             h \in {CHOOSE x \in LinkHashes : x = Sha256(<<>>) \/ x = Unwrap(rc.chain).lhash}}

\* a record as its public fields allow it to be changed after it was made
Altered(r) ==
  {r,
   [r EXCEPT !.hprev = None],
   [r EXCEPT !.id = None],
   [r EXCEPT !.set = None],
   [r EXCEPT !.id = None, !.set = None],
   [r EXCEPT !.id = Some(ChainId)],
   [r EXCEPT !.data.data = FlipFirst(r.data.data)]}
  \cup {[r EXCEPT !.hprev = Some(h)] : h \in LinkHashes}

\* arbitrary Rn values
ArbitraryRecords == UNION {Altered(r) : r \in MadeRecords}

\* RnChain::new on an arbitrary record
RcNewArbitrary ==
  /\ rc.chain = None
  /\ \E r \in ArbitraryRecords :
       \E res \in {RnChainNew(r)} :
         rc' = AfterPut("new", r, res, FALSE, None, <<>>)
  /\ UNCHANGED <<sg, sh, sl, fa, mem, rs>>

\* chain.push on an arbitrary record
RcPushArbitrary ==
  /\ rc.chain # None
  /\ Len(Unwrap(rc.chain).chain) < MaxChain
  /\ \E r \in ArbitraryRecords :
       \E res \in {RnChainPush(Unwrap(rc.chain), r)} :
         rc' = AfterPut("push", r, res, FALSE, None, <<>>)
  /\ UNCHANGED <<sg, sh, sl, fa, mem, rs>>

\* chain.recover(alpha), alpha computed from the chain's kn with the master
\* secret (good) or with another scalar
RcRecover(good) ==
  /\ rc.chain # None
  /\ rc.op # "recover"
  /\ LET x == IF good THEN rc.e ELSE OtherSecret(rc.e)
         alpha == Compress(PtMul(x, RnChainKn(Unwrap(rc.chain))))
     IN rc' = [rc EXCEPT !.op = "recover",
                         !.res = RnChainRecover(Unwrap(rc.chain), alpha),
                         !.prev = rc.chain,
                         !.arg = NoArg,
                         !.argCheck = "none",
                         !.alphaOk = good]
  /\ UNCHANGED <<sg, sh, sl, fa, mem, rs>>

RcNext ==
  \/ RcCreateHead
  \/ RcCreateTail
  \/ RcNewArbitrary
  \/ RcPushArbitrary
  \/ \E good \in BOOLEAN : RcRecover(good)

SpecChain == RcInit /\ [][RcNext]_vars

\* the records of the chain, once RnChain::new has succeeded
Records == Unwrap(rc.chain).chain

\* C1: a chain made of a head and tails created as rn_chain_speed creates
\* them is recovered in full: recover with alpha = compress(e * kn()) returns
\* Ok with the file references of all records, head first.
C1_FullRecovery ==
  (rc.op = "recover" /\ rc.honest /\ rc.alphaOk) => rc.res = Ok(rc.files)

C1_Witness ==
  /\ rc.op = "recover" /\ rc.honest /\ rc.alphaOk
  /\ Len(Records) = 3
  /\ rc.res = Ok(rc.files)
  /\ rc.files[1] # rc.files[2]
  /\ Records[1].data.kn # Records[3].data.kn

\* C2: once RnChain::new has succeeded, whatever is pushed afterwards, the
\* chain is not empty, lhash is the hash of the last record, every later
\* record names the hash of the record before it, and every record's
\* signature verifies against its own hash.
C2_ChainWellFormed ==
  rc.chain # None =>
    /\ Len(Records) >= 1
    /\ RnHash(Records[Len(Records)]) = Ok(Unwrap(rc.chain).lhash)
    /\ \A k \in 2..Len(Records) :
         /\ IsSome(Records[k].hprev)
         /\ RnHash(Records[k - 1]) = Ok(Unwrap(Records[k].hprev))
    /\ \A k \in 1..Len(Records) :
         /\ IsOk(RnHash(Records[k]))
         /\ ExtVerify(Records[k].sig, <<RnHash(Records[k]).val>>)

C2_Witness ==
  /\ rc.chain # None /\ Len(Records) = 3 /\ ~rc.honest
  /\ rc.op = "push" /\ rc.res.kind = "Ok"
  /\ Records[2].sig.key # Records[3].sig.key

IsHeadKind(r) == IsSome(r.id) /\ IsSome(r.set) /\ ~IsSome(r.hprev)
IsTailKind(r) == ~IsSome(r.id) /\ ~IsSome(r.set) /\ IsSome(r.hprev)

\* C3: the first record of a chain is a Head (id and set, no hprev) and every
\* later record is a Tail (hprev, neither id nor set).
\* A push of a record that carries an id is rejected.
C3_RecordKinds ==
  /\ rc.chain # None =>
       /\ IsHeadKind(Records[1])
       /\ \A k \in 2..Len(Records) : IsTailKind(Records[k])
  /\ (rc.op = "push" /\ IsSome(rc.arg.id)) => rc.res.kind # "Ok"

\* a record made by Rn::head, its hprev then set to lhash, is pushed
C3_PushedHead ==
  ~(rc.op = "push" /\ IsSome(rc.arg.id) /\ rc.res.kind = "Ok")

\* C4: a push of a record whose hprev differs from the chain's lhash fails
\* with the chain link error and leaves the chain as it was.
C4_LinkErrorKind ==
  (rc.op = "push" /\ IsSome(rc.arg.hprev)
     /\ Unwrap(rc.arg.hprev) # Unwrap(rc.prev).lhash)
  => (rc.res = Err("Incorrect hash chain!") /\ rc.chain = rc.prev)

\* C4, amended: a push of a record whose hprev differs from the chain's lhash
\* never succeeds and leaves the chain as it was; Rn::check runs first, so the
\* error is the chain link error exactly when the record passes Rn::check,
\* and what Rn::check returned (the signature error, or the abort of
\* Rn::hash) otherwise.
C4_LinkErrorAfterCheck ==
  (rc.op = "push" /\ IsSome(rc.arg.hprev)
     /\ Unwrap(rc.arg.hprev) # Unwrap(rc.prev).lhash)
  => /\ rc.chain = rc.prev
     /\ rc.res.kind # "Ok"
     /\ IsOk(rc.argCheck) => rc.res = Err("Incorrect hash chain!")
     /\ ~IsOk(rc.argCheck) => rc.res = rc.argCheck

\* a tail made for the chain whose hprev was altered afterwards fails the
\* signature check; a tail signed over a wrong hprev fails the link check
C4_Witness ==
  /\ rc.op = "push" /\ IsSome(rc.arg.hprev) /\ rc.arg.id = None
  /\ Unwrap(rc.arg.hprev) = FlipFirst(Unwrap(rc.prev).lhash)
  /\ rc.res = Err("Incorrect hash chain!")
  /\ Len(Unwrap(rc.prev).chain) = 2

C4_WitnessAltered ==
  /\ rc.op = "push" /\ IsSome(rc.arg.hprev) /\ rc.arg.id = None
  /\ Unwrap(rc.arg.hprev) = FlipFirst(Unwrap(rc.prev).lhash)
  /\ rc.res = Err("Invalid record signature!")

\* C13: RnChain::new of a record that is not a Head and RnChain::push of a
\* record that is not a Tail return an error, whatever the record, and do not
\* abort: a record with neither id nor hprev and a record with an id and no
\* set included.
C13_ShapeErrors ==
  /\ (rc.op = "new" /\ ~IsHeadKind(rc.arg)) => rc.res.kind = "Err"
  /\ (rc.op = "push" /\ ~IsTailKind(rc.arg)) => rc.res.kind = "Err"

\* new and push abort in Rn::hash on a record with an id and no set, or with
\* neither id nor hprev
C13_NoAbort ==
  rc.op \in {"new", "push"} => rc.res.kind # "Panic"

RECURSIVE LambdaRuleBroken(_, _, _)
\* the payloads of the records i, i-1, ... as they open one after the other,
\* record i under lambda: some record after the first carries no
\* lambda_prev, or the first record carries one
LambdaRuleBroken(self, i, lambda) ==
  LET data == RnEncDataData(self.chain[i].data, lambda)
  IN /\ IsOk(data)
     /\ IF i = 1 THEN IsSome(data.val.lambda_prev)
        ELSE \/ ~IsSome(data.val.lambda_prev)
             \/ LambdaRuleBroken(self, i - 1, Unwrap(data.val.lambda_prev))

\* the LambdaKey that recover derives for the last record from the master
\* secret
LastLambda ==
  LambdaKeyNew(Compress(PtMul(rc.e, RnChainKn(Unwrap(rc.chain)))),
               Unwrap(Records[1].id), Unwrap(Records[1].set))

\* C17: recover on a chain in which the payload of a later record has no
\* lambda_prev, or the payload of the first record has one, returns an error:
\* it neither aborts nor returns file references.
C17_LambdaKindEnforced ==
  (rc.op = "recover" /\ rc.alphaOk
     /\ LambdaRuleBroken(Unwrap(rc.chain), Len(Records), LastLambda))
  => rc.res.kind = "Err"

\* a later record without lambda_prev: recover aborts
C17_NoAbort ==
  (rc.op = "recover" /\ rc.alphaOk
     /\ LambdaRuleBroken(Unwrap(rc.chain), Len(Records), LastLambda))
  => rc.res.kind # "Panic"

\* a first record with lambda_prev: recover returns its file
C17_NoSuccess ==
  (rc.op = "recover" /\ rc.alphaOk
     /\ LambdaRuleBroken(Unwrap(rc.chain), Len(Records), LastLambda))
  => rc.res.kind # "Ok"

-----------------------------------------------------------------------------
(* Chains whose records change after they were pushed: the fields of RnChain
   and Rn are public or come from deserialization *)

\* a signature of the other key pair over another digest
ForeignSig == ExtSign(OtherKey.s, OtherKey.key, <<Sha256(<<>>)>>)

\* record k of the chain as it may be changed in place: its hprev (a tail's),
\* or its signature (in a deserialized chain)
AlteredInPlace(r) ==
  {[r EXCEPT !.sig = ForeignSig]}
  \cup (IF IsSome(r.hprev)
        THEN {[r EXCEPT !.hprev = Some(FlipFirst(Unwrap(r.hprev)))]}
        ELSE {})

\* chain.chain[k] = r, for a chain made as rn_chain_speed makes it
RcAlter ==
  /\ rc.chain # None /\ rc.honest /\ ~rc.altered
  /\ \E k \in 1..Len(Unwrap(rc.chain).chain) :
       \E r \in AlteredInPlace(Unwrap(rc.chain).chain[k]) :
         rc' = [rc EXCEPT !.chain = Some([Unwrap(rc.chain) EXCEPT !.chain[k] = r]),
                          !.op = "alter",
                          !.res = Ok(<<>>),
                          !.prev = rc.chain,
                          !.arg = NoArg,
                          !.argCheck = "none",
                          !.altered = TRUE]
  /\ UNCHANGED <<sg, sh, sl, fa, mem, rs>>

RcPubNext == RcNext \/ RcAlter

SpecChainPub == RcInit /\ [][RcPubNext]_vars

\* C12: RnChain::recover fails whenever some record of the chain does not
\* pass Rn::check when recover is called, and returns no file references of
\* such a record.
C12_RecoverChecksSignatures ==
  (rc.op = "recover" /\ \E k \in 1..Len(Records) : ~IsOk(RnCheck(Records[k])))
  => rc.res.kind = "Err"

\* recover returns the files of a chain with an altered record as if nothing
\* had happened to it
C12_RecoveredUnverified ==
  ~(/\ rc.op = "recover" /\ rc.altered /\ rc.alphaOk
    /\ \E k \in 1..Len(Records) : ~IsOk(RnCheck(Records[k]))
    /\ rc.res = Ok(rc.files))

-----------------------------------------------------------------------------
(* Sealing a record and opening it again: structs.rs, record_write_load *)

Ids == {<<0, 1>>, <<0>>}
Sets == {<<2>>, <<1, 2>>}

\* the payloads of a record: a head's (no lambda) and a tail's
Payloads ==
  {[lambda_prev |-> l, file |-> f] :
     l \in {None, Some(LambdaKeyNew(Compress(G), ChainId, ChainSet))},
     f \in FileRefs}

SlInit ==
  /\ sl = [phase |-> "init"]
  /\ sg = "idle" /\ sh = "idle" /\ rc = "idle" /\ fa = "idle"
  /\ mem = "idle" /\ rs = "idle"

\* Rn::head under the master key EK = e * G
SlSeal ==
  /\ sl.phase = "init"
  /\ \E e \in Secrets, k \in Nonces, iv \in IVs, id \in Ids, set \in Sets,
        rd \in Payloads :
       \E lr \in {RnHead(SourceKey, PtMul(e, G), id, set, rd, k, iv)} :
         sl' = [phase |-> "sealed", e |-> e, id |-> id, set |-> set, rd |-> rd,
                lambda |-> lr[1], rn |-> lr[2]]
  /\ UNCHANGED <<sg, sh, rc, fa, mem, rs>>

\* r1.check(), then LambdaKey::new for alpha = x * kn and r1.data.data(lambda)
SlUnseal ==
  /\ sl.phase = "sealed"
  /\ \E x \in {sl.e, OtherSecret(sl.e)}, id \in Ids, set \in Sets :
       \E lambda \in {LambdaKeyNew(Compress(PtMul(x, sl.rn.data.kn)), id, set)} :
         sl' = [phase |-> "unsealed", e |-> sl.e, id |-> sl.id, set |-> sl.set,
                rd |-> sl.rd, lambda |-> sl.lambda, rn |-> sl.rn,
                x |-> x, id2 |-> id, set2 |-> set,
                check |-> RnCheck(sl.rn),
                data |-> RnEncDataData(sl.rn.data, lambda)]
  /\ UNCHANGED <<sg, sh, rc, fa, mem, rs>>

SlNext == SlSeal \/ SlUnseal

SpecSeal == SlInit /\ [][SlNext]_vars

\* C9: a record sealed under EK = e * G opens under
\* LambdaKey::new(compress(e * kn), id, set) to the payload it was sealed
\* with, and the head record passes Rn::check.
C9_SealUnseal ==
  (sl.phase = "unsealed" /\ sl.x = sl.e /\ sl.id2 = sl.id /\ sl.set2 = sl.set)
  => (sl.data = Ok(sl.rd) /\ IsOk(sl.check))

C9_Witness ==
  /\ sl.phase = "unsealed" /\ sl.x = sl.e /\ sl.id2 = sl.id /\ sl.set2 = sl.set
  /\ sl.e = 2 /\ sl.rn.data.kn = 2
  /\ IsSome(sl.rd.lambda_prev) /\ sl.rd.file.hfile # <<>>
  /\ sl.data = Ok(sl.rd) /\ IsOk(sl.check)

\* under another alpha the record does not open to its payload
C9_WrongAlpha ==
  /\ sl.phase = "unsealed" /\ sl.x # sl.e
  /\ sl.data # Ok(sl.rd)

\* the alpha and the lambda that SlUnseal opened the record with
UnsealAlpha == Compress(PtMul(sl.x, sl.rn.data.kn))
UnsealLambda == LambdaKeyNew(UnsealAlpha, sl.id2, sl.set2)

\* C15: the bytes hashed by LambdaKey::new determine (alpha, id, set): for
\* the same alpha, another (id, set) gives another hash input and another
\* lambda.
C15_KdfFraming ==
  (sl.phase = "unsealed" /\ sl.x = sl.e /\ <<sl.id2, sl.set2>> # <<sl.id, sl.set>>)
  => /\ LambdaKeyInput(UnsealAlpha, sl.id2, sl.set2)
          # LambdaKeyInput(UnsealAlpha, sl.id, sl.set)
     /\ UnsealLambda # sl.lambda

\* a record sealed for one (id, set) opens under the lambda of another
C15_OpensUnderOtherId ==
  ~(/\ sl.phase = "unsealed" /\ sl.x = sl.e
    /\ <<sl.id2, sl.set2>> # <<sl.id, sl.set>>
    /\ sl.data = Ok(sl.rd))

-----------------------------------------------------------------------------
(* Sharing a secret and recovering it: crypto/shares.rs tests, main.rs *)

\* the random coefficients of a polynomial
Coefs == (0..MaxCoef) \cup {Q - 1}

\* the increasing sequences of indices out of 1..n that stand for the
\* subsets of the shares
RECURSIVE Selections(_)
Selections(n) ==
  IF n = 0 THEN {<<>>}
  ELSE Selections(n - 1) \cup {Append(s, n) : s \in Selections(n - 1)}

ShInit ==
  /\ sh = [phase |-> "init"]
  /\ sg = "idle" /\ sl = "idle" /\ rc = "idle" /\ fa = "idle"
  /\ mem = "idle" /\ rs = "idle"

\* Polynomial::rnd(secret, t)
ShRnd ==
  /\ sh.phase = "init"
  /\ \E secret \in Secrets, t \in 1..MaxDegree :
       \E rnd \in {s \in SeqsUpTo(Coefs, t) : Len(s) = t} :
         sh' = [phase |-> "poly", secret |-> secret, t |-> t,
                poly |-> PolyRnd(secret, t, rnd)]
  /\ UNCHANGED <<sg, sl, rc, fa, mem, rs>>

\* poly.shares(n)
ShShares ==
  /\ sh.phase = "poly"
  /\ \E n \in (sh.t + 1)..MaxParties :
       sh' = [phase |-> "shared", secret |-> sh.secret, t |-> sh.t,
              poly |-> sh.poly, shares |-> PolyShares(sh.poly, n)]
  /\ UNCHANGED <<sg, sl, rc, fa, mem, rs>>

\* some of the shareholders come together: a ShareVector of their shares
ShSelect ==
  /\ sh.phase = "shared"
  /\ \E sel \in Selections(Len(sh.shares)) \ {<<>>} :
       sh' = [phase |-> "selected", secret |-> sh.secret, t |-> sh.t,
              poly |-> sh.poly,
              vec |-> [j \in 1..Len(sel) |-> sh.shares[sel[j]]]]
  /\ UNCHANGED <<sg, sl, rc, fa, mem, rs>>

\* shares.recover()
ShRecover ==
  /\ sh.phase = "selected"
  /\ sh' = [phase |-> "recovered", secret |-> sh.secret, t |-> sh.t,
            poly |-> sh.poly, vec |-> sh.vec,
            recovered |-> ShareVectorRecover(sh.vec)]
  /\ UNCHANGED <<sg, sl, rc, fa, mem, rs>>

\* a record is sealed under EK = secret * G with the ephemeral scalar k; the
\* shareholders lift their shares by its kn and the combiner recovers alpha
\* and derives lambda (rn_chain_speed: &ei * chain.kn(), recover, compress)
ShUnseal ==
  /\ sh.phase = "selected"
  /\ \E k \in Nonces :
       \E ld \in {RnEncDataNew(PtMul(sh.secret, G), ChainId, ChainSet,
                               [lambda_prev |-> None,
                                file |-> CHOOSE f \in FileRefs : TRUE], k, ChainIV)} :
         \E rp \in {RistrettoShareVectorRecover(ShareVectorMulPoint(sh.vec, ld[2].kn))} :
           sh' = [phase |-> "unsealed", secret |-> sh.secret, t |-> sh.t,
                  poly |-> sh.poly, vec |-> sh.vec, k |-> k, kn |-> ld[2].kn,
                  sealed |-> ld[1], point |-> rp,
                  lambda |-> LambdaKeyNew(Compress(rp), ChainId, ChainSet)]
  /\ UNCHANGED <<sg, sl, rc, fa, mem, rs>>

ShNext == ShRnd \/ ShShares \/ ShSelect \/ ShRecover \/ ShUnseal

SpecShares == ShInit /\ [][ShNext]_vars

\* C5: t+1 or more shares of a polynomial of degree t made by Polynomial::rnd
\* recover its secret f(0).
C5_LagrangeRecovery ==
  (sh.phase = "recovered" /\ Len(sh.vec) >= sh.t + 1) => sh.recovered = sh.secret

C5_Witness ==
  /\ sh.phase = "recovered" /\ sh.t = 2 /\ Len(sh.vec) = 3
  /\ sh.vec[1].i = 2 /\ sh.vec[3].i = 4
  /\ sh.poly.a[3] # 0
  /\ sh.recovered = sh.secret

\* with t shares only, the result is not the secret
C5_TooFew ==
  /\ sh.phase = "recovered" /\ Len(sh.vec) = sh.t
  /\ sh.recovered # sh.secret

\* C6: the point recovered from t+1 or more point shares (i, s_i * kn) is
\* e * kn = k * EK, and the lambda derived from it is the lambda returned when
\* the record was sealed.
C6_ThresholdUnseal ==
  (sh.phase = "unsealed" /\ Len(sh.vec) >= sh.t + 1)
  => /\ sh.point = PtMul(sh.secret, sh.kn)
     /\ sh.point = PtMul(sh.k, PtMul(sh.secret, G))
     /\ sh.lambda = sh.sealed

C6_Witness ==
  /\ sh.phase = "unsealed" /\ sh.t = 2 /\ Len(sh.vec) = 3
  /\ sh.vec[1].i = 2 /\ sh.k = 2 /\ sh.secret = 2
  /\ sh.poly.a[2] # 0
  /\ sh.lambda = sh.sealed

-----------------------------------------------------------------------------
(* Share vectors with a repeated index *)

\* ShareVector(shares): the tuple struct takes any Vec<Share>
ShareVectorNew(v) == Ok(v)

HasDuplicate(v) == \E a, b \in 1..Len(v) : a # b /\ v[a].i = v[b].i

\* a ShareVector in which one shareholder's share comes twice
ShSelectDup ==
  /\ sh.phase = "shared"
  /\ \E sel \in Selections(Len(sh.shares)) \ {<<>>} :
       \E d \in 1..Len(sel) :
         \E built \in {ShareVectorNew([j \in 1..(Len(sel) + 1) |->
                          sh.shares[IF j <= Len(sel) THEN sel[j] ELSE sel[d]]])} :
           sh' = [phase |-> IF IsOk(built) THEN "selected" ELSE "rejected",
                  secret |-> sh.secret, t |-> sh.t, poly |-> sh.poly,
                  vec |-> IF IsOk(built) THEN built.val ELSE <<>>]
  /\ UNCHANGED <<sg, sl, rc, fa, mem, rs>>

ShDupNext == ShNext \/ ShSelectDup

SpecSharesDup == ShInit /\ [][ShDupNext]_vars

\* C14: a share set with a repeated index is rejected when the ShareVector
\* (or RistrettoShareVector) is made, so that recover is never evaluated on
\* one and never returns a scalar or a point computed from one.
C14_DuplicatesRejected ==
  sh.phase \in {"selected", "recovered", "unsealed"} => ~HasDuplicate(sh.vec)

\* recover on more than t shares, one of them twice, returns a scalar that is
\* not the secret
C14_SilentResult ==
  ~(/\ sh.phase = "recovered" /\ HasDuplicate(sh.vec)
    /\ Len(sh.vec) > sh.t + 1
    /\ sh.recovered # sh.secret)

-----------------------------------------------------------------------------
(* Signing and verifying messages: crypto/signatures.rs, tests *)

\* the byte strings of a message
MsgStrs == SeqsUpTo(0..1, MaxMsgBytes)

\* messages: at most two byte strings, MaxMsgBytes bytes in all
Messages ==
  {m \in SeqsUpTo(MsgStrs, 2) : Len(Concat(m)) <= MaxMsgBytes}

SgInit ==
  /\ sg = [phase |-> "init"]
  /\ sh = "idle" /\ sl = "idle" /\ rc = "idle" /\ fa = "idle"
  /\ mem = "idle" /\ rs = "idle"

\* test_correct / test_incorrect, first half: sign data under a fresh key
SgSign(s, m, ext) ==
  /\ sg.phase = "init"
  /\ sg' = [phase |-> "signed", s |-> s, key |-> KeyPair(s).key, m |-> m,
            ext |-> ext,
            sig |-> IF ext THEN ExtSign(s, KeyPair(s).key, m)
                    ELSE SigSign(s, KeyPair(s).key, m)]
  /\ UNCHANGED <<sh, sl, rc, fa, mem, rs>>

\* test_correct / test_incorrect, second half: verify against data
SgVerify(m2) ==
  /\ sg.phase = "signed"
  /\ sg' = [phase |-> "verified", s |-> sg.s, key |-> sg.key, m |-> sg.m,
            ext |-> sg.ext, sig |-> sg.sig, m2 |-> m2,
            accepted |-> IF sg.ext THEN ExtVerify(sg.sig, m2)
                         ELSE SigVerify(sg.sig, sg.key, m2)]
  /\ UNCHANGED <<sh, sl, rc, fa, mem, rs>>

SgNext ==
  \/ \E s \in Secrets, m \in Messages, ext \in BOOLEAN : SgSign(s, m, ext)
  \/ \E m2 \in Messages : SgVerify(m2)

SpecSig == SgInit /\ [][SgNext]_vars

\* C7: a signature made by sign(s, s*G, m) is accepted by verify(s*G, m),
\* for Signature and for ExtSignature.
C7_SignatureCorrect ==
  (sg.phase = "verified" /\ sg.m2 = sg.m) => sg.accepted

C7_Witness ==
  /\ sg.phase = "verified" /\ sg.m2 = sg.m /\ sg.accepted
  /\ sg.ext /\ Len(sg.m) = 2 /\ Len(Concat(sg.m)) = 2

\* C8: a signature made by sign(s, s*G, m) is rejected by verify(s*G, m')
\* for every message m' different from m.
C8_SignatureSound ==
  (sg.phase = "verified" /\ sg.m2 # sg.m) => ~sg.accepted

\* the messages of a violation of C8 differ only in how their bytes are split
C8_OnlyFraming ==
  (sg.phase = "verified" /\ sg.accepted) => Concat(sg.m2) = Concat(sg.m)

-----------------------------------------------------------------------------
(* ExtSignature under bincode: crypto/signatures.rs, structs.rs *)

\* bytes of bincode::serialize(&ExtSignature): the length-prefixed base64
\* string and the length-prefixed compressed key (the 136 of FnAdaptor)
SigSize == 19
\* bytes ReadUntil buffers beyond the remainder (the 1024 of ReadUntil::new)
ReadBufExtra == 3
\* bytes of the read buffer of the AesReader (aesstream BUFFER_SIZE)
AesBufLen == 4
\* bytes of the buffer of std::io::copy
CopyBufLen == 4

\* longest plaintext of a file
MaxPlain == 2

\* bincode::serialize(&ExtSignature)
SerExtSig(ext) == SerVec(ext.sig.encoded) \o SerVec(Compress(ext.key))

\* Deserialize for Signature: the base64 string, its length, the two
\* canonical scalars
DeSignature(encoded) ==
  LET data == Base64Decode(encoded)
  IN IF ~IsSome(data) THEN Err("Invalid base64 signature string!")
     ELSE IF Len(Unwrap(data)) # 2 * ScalarLen
     THEN Err("Incorrect signature lenght!")
     ELSE LET c == FromBytes(Take(Unwrap(data), ScalarLen))
              p == FromBytes(Drop(Unwrap(data), ScalarLen))
          IN IF c >= Q THEN Err("Invalid c scalar!")
             ELSE IF p >= Q THEN Err("Invalid p scalar!")
             ELSE Ok([encoded |-> encoded, c |-> c, p |-> p])

\* bincode::deserialize::<ExtSignature>; bytes after the value are ignored
DeExtSig(bs) ==
  LET sv == DeVec(bs)
  IN IF ~IsSome(sv) THEN Err("Decode")
     ELSE LET sig == DeSignature(Unwrap(sv)[1])
              kv == DeVec(Unwrap(sv)[2])
          IN IF ~IsOk(sig) THEN sig
             ELSE IF ~IsSome(kv) THEN Err("Decode")
             ELSE IF Len(Unwrap(kv)[1]) # CompressLen
                     \/ FromBytes(Unwrap(kv)[1]) >= Q
             THEN Err("Decode")
             ELSE Ok([sig |-> sig.val, key |-> FromBytes(Unwrap(kv)[1])])

-----------------------------------------------------------------------------
(* WriteInterceptor, ReadInterceptor, ReadUntil: structs.rs *)

\* a sink that takes every byte offered to a write call
FullWrite == 99
\* a reader that fills the buffer it is given as far as it has bytes
FullRead == 99

Min(a, b) == IF a < b THEN a ELSE b

RECURSIVE WriteAll(_, _)
\* Write::write_all over the WriteInterceptor, the sink taking at most limit
\* bytes of a write: every write call hashes the whole buffer it is offered.
\* Returns the bytes given to the hasher; the sink gets buf.
WriteAll(buf, limit) ==
  IF buf = <<>> THEN <<>>
  ELSE buf \o WriteAll(Drop(buf, Min(limit, Len(buf))), limit)

RECURSIVE WriteChunks(_, _)
\* the bytes hashed while the buffers of chunks are written one after the other
WriteChunks(chunks, limit) ==
  IF chunks = <<>> THEN <<>>
  ELSE WriteAll(Head(chunks), limit) \o WriteChunks(Tail(chunks), limit)

RECURSIVE CopyChunks(_, _, _)
\* std::io::copy into the AesWriter: for each buffer of plaintext (bytes
\* done+1..upto) the writer passes on the blocks of the ciphertext body that
\* are complete by then; the flush on drop passes on the padded last block.
CopyChunks(body, plainLen, done) ==
  LET upto == Min(plainLen, done + CopyBufLen)
  IN IF done >= plainLen
     THEN <<SubSeq(body, ((plainLen \div BlockLen) * BlockLen) + 1, Len(body))>>
     ELSE <<SubSeq(body, ((done \div BlockLen) * BlockLen) + 1,
                   (upto \div BlockLen) * BlockLen)>>
          \o CopyChunks(body, plainLen, upto)

\* the buffers the AesWriter writes: the IV, then the ciphertext
AesWriterChunks(key, iv, plain) ==
  <<iv>> \o CopyChunks(CbcEncrypt(key, iv, PkcsPad(plain)), Len(plain), 0)

\* slice.rotate_left(mid)
RotateLeftBad(s, mid) == s

RotateLeft(s, mid) == Drop(s, mid) \o Take(s, mid)

\* ReadUntil::new(from, remainder); from is the reader: the bytes it still
\* has and the most bytes each of its next reads returns
ReadUntilNew(data, caps, remainder) ==
  [from |-> [data |-> data, caps |-> caps],
   buffer |-> [i \in 1..(ReadBufExtra + remainder) |-> 0],
   remainder |-> remainder, end |-> 0]

RECURSIVE ReadUntilLoop(_, _, _)
\* the loop of ReadUntil::read(buf) with buf.len() = n and the bytes got
\* copied to buf so far: [ru |-> the reader after, res |-> Ok(bytes) or Err]
ReadUntilLoop(ru, n, got) ==
  IF Len(got) = n THEN [ru |-> ru, res |-> Ok(got)]
  ELSE
    LET cap == IF ru.from.caps = <<>> THEN FullRead ELSE Head(ru.from.caps)
        size == Min(Min(Len(ru.buffer) - ru.end, Len(ru.from.data)), cap)
        filled == [i \in 1..Len(ru.buffer) |->
                     IF i > ru.end /\ i <= ru.end + size
                     THEN ru.from.data[i - ru.end] ELSE ru.buffer[i]]
        from == [data |-> Drop(ru.from.data, size),
                 caps |-> IF ru.from.caps = <<>> THEN <<>> ELSE Tail(ru.from.caps)]
        end == ru.end + size
        top == end - ru.remainder
        left == n - Len(got)
        moved == IF top <= left THEN top ELSE left
    IN IF end < ru.remainder
       THEN [ru |-> [ru EXCEPT !.from = from, !.buffer = filled, !.end = end],
             res |-> Err("Expected input size of at least")]
       ELSE IF top = 0
       THEN [ru |-> [ru EXCEPT !.from = from, !.buffer = filled, !.end = end],
             res |-> Ok(got)]
       ELSE ReadUntilLoop([ru EXCEPT !.from = from,
                                     !.buffer = RotateLeft(filled, moved),
                                     !.end = end - moved],
                          n, got \o Take(filled, moved))

\* ReadUntil::read(buf)
ReadUntilRead(ru, n) == ReadUntilLoop(ru, n, <<>>)

\* ReadUntil::remainder
ReadUntilRemainder(ru) == Take(ru.buffer, ru.end)

RECURSIVE ReadExact(_, _, _)
\* Read::read_exact of n bytes (the IV, in AesReader::new)
ReadExact(ru, n, got) ==
  IF Len(got) = n THEN [ru |-> ru, res |-> Ok(got)]
  ELSE LET r == ReadUntilRead(ru, n - Len(got))
       IN IF ~IsOk(r.res) THEN [ru |-> r.ru, res |-> r.res, got |-> got]
          ELSE IF r.res.val = <<>>
          THEN [ru |-> r.ru, res |-> Err("UnexpectedEof"), got |-> got]
          ELSE ReadExact(r.ru, n, got \o r.res.val)

RECURSIVE ReadToEnd(_, _)
\* the reads of the AesReader (fill_buf) until one returns 0
ReadToEnd(ru, got) ==
  LET r == ReadUntilRead(ru, AesBufLen)
  IN IF ~IsOk(r.res) THEN [ru |-> r.ru, res |-> r.res, got |-> got]
     ELSE IF r.res.val = <<>> THEN [ru |-> r.ru, res |-> Ok(got), got |-> got]
     ELSE ReadToEnd(r.ru, got \o r.res.val)

\* what the AesReader has decrypted of the body of `bytes` (an IV and a
\* body) when the stream ends in an error: the blocks before the last
\* complete one, which the decryptor holds back for the padding
AesPartial(key, bytes) ==
  LET body == Drop(bytes, BlockLen)
      blocks == Len(body) \div BlockLen
  IN IF Len(bytes) < BlockLen \/ blocks < 2 THEN <<>>
     ELSE CbcDecrypt(key, Take(bytes, BlockLen), Take(body, (blocks - 1) * BlockLen))

-----------------------------------------------------------------------------
(* FnAdaptor: structs.rs *)

\* what ExtSignature::verify reads of a signature, and the digest it is for
SignedValues(ext, dhash) ==
  [c |-> ext.sig.c, p |-> ext.sig.p, key |-> ext.key, dhash |-> dhash]

\* FnAdaptor::save(keyp, dn, from, to) of the plaintext plain, with the
\* random IV of the AesWriter and a sink that takes at most limit bytes of a
\* write: the result and the bytes in the sink
FnAdaptorSave(keyp, dn, plain, iv, limit) ==
  LET hashed == WriteChunks(AesWriterChunks(dn, iv, plain), limit)
      dhash == Sha256(hashed)
      sig == ExtSign(keyp.s, keyp.key, <<dhash>>)
  IN [res |-> Ok(<<>>), to |-> AesWrite(dn, iv, plain) \o SerExtSig(sig),
      hashed |-> hashed, signed |-> SignedValues(sig, dhash)]

\* FnAdaptor::load(dn, from, to), from a reader over data whose reads return
\* at most caps[1], caps[2], ... bytes: the result, the bytes in the sink, and
\* the signature and digest that sig.verify(&dhash) was called with, if it was
FnAdaptorLoad(dn, data, caps) ==
  LET ivr == ReadExact(ReadUntilNew(data, caps, SigSize), BlockLen, <<>>)
  IN IF ~IsOk(ivr.res) THEN [res |-> ivr.res, to |-> <<>>, verified |-> None]
     ELSE
       LET body == ReadToEnd(ivr.ru, <<>>)
           stream == ivr.res.val \o body.got
           plain == AesRead(dn, stream)
           sig == DeExtSig(ReadUntilRemainder(body.ru))
       IN IF ~IsOk(body.res)
          THEN [res |-> body.res, to |-> AesPartial(dn, stream), verified |-> None]
          ELSE IF ~IsOk(plain)
          THEN [res |-> plain, to |-> AesPartial(dn, stream), verified |-> None]
          ELSE IF ~IsOk(sig)
          THEN [res |-> sig, to |-> plain.val, verified |-> None]
          ELSE [res |-> IF ExtVerify(sig.val, <<Sha256(stream)>>) THEN Ok(<<>>)
                        ELSE Err("Signature verification failed!"),
                to |-> plain.val,
                verified |-> Some(SignedValues(sig.val, Sha256(stream)))]

-----------------------------------------------------------------------------
(* Saving a file and loading it again: structs.rs, file_write_load *)

Plaintexts == SeqsUpTo(Byte, MaxPlain)
FileKeys == {<<1, 2>>, <<3, 0>>}
\* the sinks of save: a Vec, and a sink that takes one byte of a write
SinkLimits == {FullWrite, 1}
\* the readers of load: a slice, and readers with short reads
ReaderCaps == {<<>>, <<SigSize + BlockLen>>, <<SigSize>>, <<1>>}

FaInit ==
  /\ fa = [phase |-> "init"]
  /\ sg = "idle" /\ sh = "idle" /\ sl = "idle" /\ rc = "idle"
  /\ mem = "idle" /\ rs = "idle"

FaSave ==
  /\ fa.phase = "init"
  /\ \E keyp \in {SourceKey, OtherKey}, dn \in FileKeys, plain \in Plaintexts,
        iv \in IVs, limit \in SinkLimits :
       \E s \in {FnAdaptorSave(keyp, dn, plain, iv, limit)} :
         fa' = [phase |-> "saved", keyp |-> keyp, dn |-> dn, plain |-> plain,
                limit |-> limit, saved |-> s.res, ciphertext |-> s.to,
                hashed |-> s.hashed, signed |-> s.signed, flip |-> <<>>]
  /\ UNCHANGED <<sg, sh, sl, rc, mem, rs>>

FaLoad ==
  /\ fa.phase = "saved"
  /\ \E dn \in FileKeys, caps \in ReaderCaps :
       \E l \in {FnAdaptorLoad(dn, fa.ciphertext, caps)} :
         fa' = [phase |-> "loaded", keyp |-> fa.keyp, dn |-> fa.dn,
                plain |-> fa.plain, limit |-> fa.limit, saved |-> fa.saved,
                ciphertext |-> fa.ciphertext,
                hashed |-> fa.hashed, signed |-> fa.signed, flip |-> fa.flip,
                verified |-> l.verified,
                dn2 |-> dn, caps |-> caps, loaded |-> l.res, plain2 |-> l.to]
  /\ UNCHANGED <<sg, sh, sl, rc, mem, rs>>

FaNext == FaSave \/ FaLoad

SpecFile == FaInit /\ [][FaNext]_vars

\* C10: FnAdaptor::load with dn over the complete output of
\* FnAdaptor::save(keyp, dn, P), both over in-memory buffers as in
\* file_write_load, succeeds and writes exactly P, the empty P included.
C10_FileRoundTrip ==
  (fa.phase = "loaded" /\ fa.dn2 = fa.dn /\ fa.limit = FullWrite /\ fa.caps = <<>>)
  => (IsOk(fa.saved) /\ IsOk(fa.loaded) /\ fa.plain2 = fa.plain)

C10_Witness ==
  /\ fa.phase = "loaded" /\ fa.dn2 = fa.dn /\ fa.limit = FullWrite /\ fa.caps = <<>>
  /\ Len(fa.plain) = MaxPlain /\ fa.plain[1] # fa.plain[2]
  /\ IsOk(fa.loaded) /\ fa.plain2 = fa.plain

C10_WitnessEmpty ==
  /\ fa.phase = "loaded" /\ fa.dn2 = fa.dn /\ fa.limit = FullWrite /\ fa.caps = <<>>
  /\ fa.plain = <<>>
  /\ IsOk(fa.loaded) /\ fa.plain2 = <<>>

\* the bytes the sink has taken before the trailer
Delivered == Take(fa.ciphertext, Len(fa.ciphertext) - SigSize)

\* C20: for every sink, one that takes only part of the bytes of a write
\* included, the bytes whose hash FnAdaptor::save signs are the bytes the sink
\* has taken before the trailer, each once and in order, and FnAdaptor::load
\* over the content of the sink verifies the signature.
C20_SignsDelivered ==
  /\ fa.phase \in {"saved", "loaded"} => fa.hashed = Delivered
  /\ (fa.phase = "loaded" /\ fa.dn2 = fa.dn /\ fa.caps = <<>>) => IsOk(fa.loaded)

\* a sink that takes one byte of a write: bytes are hashed more than once
C20_HashedOnce ==
  fa.phase \in {"saved", "loaded"} => fa.hashed = Delivered

\* with a sink that takes all bytes the hash is of the bytes delivered
C20_FullSink ==
  (fa.phase \in {"saved", "loaded"} /\ fa.limit = FullWrite) => fa.hashed = Delivered

\* the file saved to a sink that takes one byte of a write does not load
C20_LoadVerifies ==
  (fa.phase = "loaded" /\ fa.dn2 = fa.dn /\ fa.caps = <<>>) => IsOk(fa.loaded)

-----------------------------------------------------------------------------
(* A saved file changed in one bit before it is loaded *)

\* one bit of one byte of the container changed: of the IV and the encrypted
\* body, or of the trailer
FaFlip ==
  /\ fa.phase = "saved" /\ fa.flip = <<>> /\ fa.limit = FullWrite
  /\ \E i \in 1..Len(fa.ciphertext), bit \in {1, 2} :
       fa' = [fa EXCEPT !.ciphertext = [@ EXCEPT ![i] = XorByte(@, bit)],
                        !.flip = <<i, bit>>]
  /\ UNCHANGED <<sg, sh, sl, rc, mem, rs>>

FtNext == FaSave \/ FaFlip \/ FaLoad

SpecTamper == FaInit /\ [][FtNext]_vars

\* the changed byte lies in the trailer
FlipInTrailer == fa.flip # <<>> /\ fa.flip[1] > Len(fa.ciphertext) - SigSize

PaddingErrors == {Err("Padding")}
SignatureErrors == {Err("Signature verification failed!")}
\* the errors of bincode::deserialize::<ExtSignature>
DecodeErrors ==
  {Err("Decode"), Err("Invalid base64 signature string!"),
   Err("Incorrect signature lenght!"), Err("Invalid c scalar!"),
   Err("Invalid p scalar!")}

C11_WitnessBody ==
  /\ fa.phase = "loaded" /\ fa.flip # <<>> /\ fa.dn2 = fa.dn /\ fa.caps = <<>>
  /\ ~FlipInTrailer /\ Len(fa.plain) = MaxPlain
  /\ fa.loaded \in SignatureErrors

-----------------------------------------------------------------------------
(* The lifetime of secrets: crypto/mod.rs, crypto/shares.rs, structs.rs *)

\* Clear::clear on scalars or bytes: every one becomes zero
Clear(v) == [i \in 1..Len(v) |-> 0]

\* a place that holds secret scalars or bytes: not yet made, owned, or dropped
NoPlace == [val |-> <<>>, state |-> "none"]
Owned(v) == [val |-> v, state |-> "live"]

\* the drop of a value of a type without a Drop impl (KeyPair, LambdaKey, a
\* Scalar local, a Vec<Scalar>): its bytes stay as they are
DropPlain(place) == [place EXCEPT !.state = "dropped"]

\* Drop for Polynomial and Drop for ShareVector / Share: clear, then free
DropCleared(place) == [val |-> Clear(place.val), state |-> "dropped"]

ZmInit ==
  /\ mem = [kp |-> NoPlace, arg |-> NoPlace, rnd |-> NoPlace, poly |-> NoPlace,
            shares |-> NoPlace, k |-> NoPlace, lambda |-> NoPlace]
  /\ sg = "idle" /\ sh = "idle" /\ sl = "idle" /\ rc = "idle" /\ fa = "idle"
  /\ rs = "idle"

\* KeyPair::new
ZmKeyPairNew ==
  /\ mem.kp.state = "none"
  /\ \E s \in Secrets : mem' = [mem EXCEPT !.kp = Owned(<<KeyPair(s).s>>)]
  /\ UNCHANGED <<sg, sh, sl, rc, fa, rs>>

\* Polynomial::rnd(ekp.s, t): the parameter secret is a copy, cleared before
\* the return; rnd_coefs is consumed by coefs.extend and freed
ZmPolyRnd ==
  /\ mem.kp.state = "live" /\ mem.poly.state = "none"
  /\ \E t \in 1..MaxDegree :
       \E rnd \in {s \in SeqsUpTo(Coefs, t) : Len(s) = t} :
         mem' = [mem EXCEPT
                   !.arg = DropPlain(Owned(Clear(<<mem.kp.val[1]>>))),
                   !.rnd = DropPlain(Owned(rnd)),
                   !.poly = Owned(PolyRnd(mem.kp.val[1], t, rnd).a)]
  /\ UNCHANGED <<sg, sh, sl, rc, fa, rs>>

\* poly.shares(n)
ZmShares ==
  /\ mem.poly.state = "live" /\ mem.shares.state = "none"
  /\ \E n \in Len(mem.poly.val)..MaxParties :
       \E v \in {PolyShares([a |-> mem.poly.val], n)} :
         mem' = [mem EXCEPT !.shares = Owned([j \in 1..Len(v) |-> v[j].yi])]
  /\ UNCHANGED <<sg, sh, sl, rc, fa, rs>>

\* RnEncData::new under EK = s * G: the scalar k is a local, dropped at the
\* return; the LambdaKey goes to the caller
ZmSeal ==
  /\ mem.kp.state = "live" /\ mem.k.state = "none"
  /\ \E k \in Nonces :
       \E ld \in {RnEncDataNew(PtMul(mem.kp.val[1], G), ChainId, ChainSet,
                               [lambda_prev |-> None,
                                file |-> CHOOSE f \in FileRefs : TRUE], k, ChainIV)} :
         mem' = [mem EXCEPT !.k = DropPlain(Owned(<<k>>)),
                            !.lambda = Owned(ld[1].key)]
  /\ UNCHANGED <<sg, sh, sl, rc, fa, rs>>

\* the owners go out of scope
ZmDropKeyPair ==
  /\ mem.kp.state = "live"
  /\ mem' = [mem EXCEPT !.kp = DropPlain(@)]
  /\ UNCHANGED <<sg, sh, sl, rc, fa, rs>>

ZmDropPolynomial ==
  /\ mem.poly.state = "live"
  /\ mem' = [mem EXCEPT !.poly = DropCleared(@)]
  /\ UNCHANGED <<sg, sh, sl, rc, fa, rs>>

ZmDropShareVector ==
  /\ mem.shares.state = "live"
  /\ mem' = [mem EXCEPT !.shares = DropCleared(@)]
  /\ UNCHANGED <<sg, sh, sl, rc, fa, rs>>

ZmDropLambdaKey ==
  /\ mem.lambda.state = "live"
  /\ mem' = [mem EXCEPT !.lambda = DropPlain(@)]
  /\ UNCHANGED <<sg, sh, sl, rc, fa, rs>>

ZmNext ==
  \/ ZmKeyPairNew \/ ZmPolyRnd \/ ZmShares \/ ZmSeal
  \/ ZmDropKeyPair \/ ZmDropPolynomial \/ ZmDropShareVector \/ ZmDropLambdaKey

SpecZero == ZmInit /\ [][ZmNext]_vars

Places == {"kp", "arg", "rnd", "poly", "shares", "k", "lambda"}

\* C16: every place that held a secret (KeyPair.s, the scalar k of a seal,
\* Share.yi, the coefficients of a Polynomial, the bytes of a LambdaKey, the
\* secret given to Polynomial::rnd) is overwritten when its owner is dropped.
C16_SecretsCleared ==
  \A x \in Places : mem[x].state = "dropped" => mem[x].val = Clear(mem[x].val)

\* the places that the code does clear: Polynomial.a, Share.yi and the
\* parameter of Polynomial::rnd
C16_ClearedOnDrop ==
  \A x \in {"arg", "poly", "shares"} :
    mem[x].state = "dropped" => mem[x].val = Clear(mem[x].val)

\* KeyPair.s is readable after the KeyPair was dropped
C16_KeyPairLeft ==
  ~(mem.kp.state = "dropped" /\ mem.kp.val # Clear(mem.kp.val))

-----------------------------------------------------------------------------
(* ReadUntil over readers with short reads: structs.rs *)

\* the bytes ReadUntil keeps back (the remainder of ReadUntil::new)
RemLen == 2
\* longest input of the reader
MaxInput == 6

\* the inputs of at least RemLen bytes
RsInputs == {s \in SeqsUpTo({1, 2}, MaxInput) : Len(s) >= RemLen}
\* what the first reads of the underlying reader return at most; every later
\* read fills the buffer as far as there are bytes
RsCaps == SeqsUpTo(1..3, 2)
\* buf.len() of the consumer's reads
RsBufSizes == {1, 2, 4}

RsInit ==
  /\ \E input \in RsInputs, caps \in RsCaps :
       rs = [input |-> input, ru |-> ReadUntilNew(input, caps, RemLen),
             out |-> <<>>, last |-> Ok(<<>>), reads |-> 0, eos |-> FALSE,
             rem |-> None]
  /\ sg = "idle" /\ sh = "idle" /\ sl = "idle" /\ rc = "idle" /\ fa = "idle"
  /\ mem = "idle"

\* encrypted.read(buf), until a read returns 0 or an error
RsRead ==
  /\ ~rs.eos /\ IsOk(rs.last)
  /\ \E n \in RsBufSizes :
       \E r \in {ReadUntilRead(rs.ru, n)} :
         rs' = [rs EXCEPT !.ru = r.ru,
                          !.last = r.res,
                          !.reads = @ + 1,
                          !.out = IF IsOk(r.res) THEN @ \o r.res.val ELSE @,
                          !.eos = IsOk(r.res) /\ r.res.val = <<>>]
  /\ UNCHANGED <<sg, sh, sl, rc, fa, mem>>

\* encrypted.remainder(), after the end of the stream
RsRemainder ==
  /\ rs.eos /\ rs.rem = None
  /\ rs' = [rs EXCEPT !.rem = Some(ReadUntilRemainder(rs.ru))]
  /\ UNCHANGED <<sg, sh, sl, rc, fa, mem>>

RsNext == RsRead \/ RsRemainder

SpecRead == RsInit /\ [][RsNext]_vars

\* s is the first bytes of t
IsPrefix(s, t) == Len(s) <= Len(t) /\ s = Take(t, Len(s))

\* the input without its last RemLen bytes
RsBody == Take(rs.input, Len(rs.input) - RemLen)

\* C18: however the underlying reader splits an input of at least RemLen
\* bytes and whatever the consumer's buffer sizes, no read of ReadUntil
\* returns an error, the bytes returned are the first bytes of the input, and
\* at the end of the stream they are all of the input but its last RemLen
\* bytes.
C18_Output ==
  /\ IsOk(rs.last)
  /\ IsPrefix(rs.out, RsBody)
  /\ rs.eos => rs.out = RsBody

\* what is returned is never wrong: the bytes returned are the first bytes of
\* the input without its last RemLen bytes, in order
C18_OutputIsPrefix == IsPrefix(rs.out, RsBody)

\* a first read of the underlying reader of fewer than RemLen bytes
C18_NoError == IsOk(rs.last)

\* a first read of the underlying reader of exactly RemLen bytes
C18_NoEarlyEnd == rs.eos => rs.out = RsBody

\* C19: once ReadUntil has returned 0 for an input of at least RemLen bytes,
\* remainder() is the last RemLen bytes of the input.
C19_Remainder ==
  rs.rem # None => Unwrap(rs.rem) = Drop(rs.input, Len(rs.input) - RemLen)

\* remainder() has RemLen bytes after the end of the stream
C19_RemainderLength ==
  rs.rem # None => Len(Unwrap(rs.rem)) = RemLen

=============================================================================
